---- MODULE Spec2Model ----
(***************************************************************************)
(* The AudioPlayer widget of src/unnamed/part_000: its React state, the    *)
(* event handlers loadAudio / playPause / restart / seekTo, the playback   *)
(* status handler registered on the handle, and the mount/unmount effect.  *)
(* The handle itself (expo-av Audio.Sound) is an opaque collaborator: the  *)
(* model records the platform calls the widget issues on it and lets each  *)
(* call resolve or reject.                                                 *)
(***************************************************************************)
EXTENDS Integers, Sequences, FiniteSets, TLC

VARIABLES
    sound,        \* useState<Audio.Sound | null>: NoSound or a handle id
    isPlaying,    \* useState(false)
    isLoading,    \* useState(false)
    duration,     \* useState<number | null>
    position,     \* useState<number | null>
    error,        \* useState<string | null>
    mounted,      \* the component has not been torn down
    hasCallback,  \* the parent supplied the onPlaybackStatusUpdate prop
    cleanupSound, \* the value of `sound` closed over by the unmount cleanup
    loadPending,  \* an Audio.Sound.createAsync call is in flight
    listener,     \* the handle on which the status handler is registered
    created,      \* handles for which createAsync resolved
    unloaded,     \* handles on which unloadAsync was called
    issued,       \* platform calls issued by the most recent handler, in order
    notified,     \* statuses passed to the parent by the most recent handler
    lastEvent     \* the most recent event and its input

vars == <<sound, isPlaying, isLoading, duration, position, error, mounted,
          hasCallback, cleanupSound, loadPending, listener, created, unloaded,
          issued, notified, lastEvent>>

----------------------------------------------------------------------------
(* Bounds of the model *)

\* largest durationMillis / positionMillis a status carries
MaxMillis == 2
\* Dimensions.get('window').width of the device
WindowWidth == 67
\* how far left of / beyond the track a tap may land
MaxOvershoot == 2

----------------------------------------------------------------------------
(* Values *)

\* null of the sound state
NoSound == 0
\* null of the duration / position state
NullMillis == -1
\* null of the error state
NoError == "null"
\* horizontal padding subtracted from the window width
BarPadding == 64

ErrLoad    == "Gagal memuat file audio"
ErrPlay    == "Gagal memutar audio"
ErrRestart == "Gagal mengulang audio"
ErrStatus  == "Error loading audio"

\* JavaScript truthiness of a number | null state
Truthy(m) == m # NullMillis /\ m # 0

\* `m || null`
OrNull(m) == IF m = 0 THEN NullMillis ELSE m

\* A platform call: its name, the handle it is issued on, and for
\* setPositionAsync the position argument as the fraction num / den.
Call(op, h, num, den) == [op |-> op, handle |-> h, num |-> num, den |-> den]

\* Playback statuses delivered by the handle.  A loaded status carries
\* durationMillis, positionMillis, isPlaying, didJustFinish; a status that is
\* not loaded carries only an optional error.
LoadedStatus ==
    [isLoaded : {TRUE}, durationMillis : 0..MaxMillis,
     positionMillis : 0..MaxMillis, isPlaying : BOOLEAN,
     didJustFinish : BOOLEAN, error : {NoError}]

UnloadedStatus ==
    [isLoaded : {FALSE}, durationMillis : {0}, positionMillis : {0},
     isPlaying : {FALSE}, didJustFinish : {FALSE}, error : {NoError, "E"}]

Status == LoadedStatus \cup UnloadedStatus

NoStatus == [isLoaded |-> FALSE, durationMillis |-> 0, positionMillis |-> 0,
             isPlaying |-> FALSE, didJustFinish |-> FALSE, error |-> NoError]

Event(kind, ok, st, x) == [kind |-> kind, ok |-> ok, status |-> st, x |-> x]

----------------------------------------------------------------------------
(* Initial state: first render, mount effect has run.  The effect issues  *)
(* Audio.setAudioModeAsync, whose failure is logged and changes no state. *)

Init ==
    /\ sound = NoSound
    /\ isPlaying = FALSE
    /\ isLoading = FALSE
    /\ duration = NullMillis
    /\ position = NullMillis
    /\ error = NoError
    /\ mounted = TRUE
    /\ hasCallback \in BOOLEAN
    /\ cleanupSound = NoSound
    /\ loadPending = FALSE
    /\ listener = NoSound
    /\ created = {}
    /\ unloaded = {}
    /\ issued = <<Call("setAudioModeAsync", NoSound, 0, 1)>>
    /\ notified = <<>>
    /\ lastEvent = Event("mount", TRUE, NoStatus, 0)

----------------------------------------------------------------------------
(* loadAudio *)

\* loadAudio up to its await of Audio.Sound.createAsync: the flags are set,
\* a previous handle (if the handler sees one) is unloaded and dropped, and
\* the create call is issued.
LoadAudioStart ==
    /\ isLoading' = TRUE
    /\ error' = NoError
    /\ IF sound # NoSound
       THEN /\ issued' = <<Call("unloadAsync", sound, 0, 1),
                           Call("createAsync", NoSound, 0, 1)>>
            /\ unloaded' = unloaded \cup {sound}
            /\ sound' = NoSound
       ELSE /\ issued' = <<Call("createAsync", NoSound, 0, 1)>>
            /\ UNCHANGED <<sound, unloaded>>
    /\ loadPending' = TRUE

\* createAsync resolved: the new handle is stored, the status handler is
\* registered on it, and the finally block clears isLoading.  playPause,
\* resumed after its await of loadAudio, returns without a further call.
CreateResolved ==
    /\ mounted
    /\ loadPending
    /\ LET newSound == Cardinality(created) + 1 IN
         /\ created' = created \cup {newSound}
         /\ sound' = newSound
         /\ listener' = newSound
    /\ isLoading' = FALSE
    /\ loadPending' = FALSE
    /\ issued' = <<>>
    /\ notified' = <<>>
    /\ lastEvent' = Event("createResolved", TRUE, NoStatus, 0)
    /\ UNCHANGED <<isPlaying, duration, position, error, mounted, hasCallback,
                   cleanupSound, unloaded>>

\* A load failure that stores a handle all the same.
CreateRejected_SetsSound ==
    /\ mounted
    /\ loadPending
    /\ error' = ErrLoad
    /\ sound' = Cardinality(created) + 1
    /\ isLoading' = FALSE
    /\ loadPending' = FALSE
    /\ issued' = <<>>
    /\ notified' = <<>>
    /\ lastEvent' = Event("createRejected", FALSE, NoStatus, 0)
    /\ UNCHANGED <<isPlaying, duration, position, mounted, hasCallback,
                   cleanupSound, listener, created, unloaded>>

\* A load failure whose handler has no finally block.
CreateRejected_NoFinally ==
    /\ mounted
    /\ loadPending
    /\ error' = ErrLoad
    /\ loadPending' = FALSE
    /\ issued' = <<>>
    /\ notified' = <<>>
    /\ lastEvent' = Event("createRejected", FALSE, NoStatus, 0)
    /\ UNCHANGED <<sound, isLoading, isPlaying, duration, position, mounted,
                   hasCallback, cleanupSound, listener, created, unloaded>>

\* createAsync rejected: the catch block sets the error, the finally block
\* clears isLoading; no handle is stored.
CreateRejected ==
    /\ mounted
    /\ loadPending
    /\ error' = ErrLoad
    /\ isLoading' = FALSE
    /\ loadPending' = FALSE
    /\ issued' = <<>>
    /\ notified' = <<>>
    /\ lastEvent' = Event("createRejected", FALSE, NoStatus, 0)
    /\ UNCHANGED <<sound, isPlaying, duration, position, mounted, hasCallback,
                   cleanupSound, listener, created, unloaded>>

----------------------------------------------------------------------------
(* The playback status handler registered by loadAudio *)

StatusPlaying_NoAutoStop(status) == status.isPlaying

\* isPlaying after the handler: setIsPlaying(status.isPlaying), overridden by
\* setIsPlaying(false) when the status has didJustFinish.  The override goes
\* through runOnJS on the JS thread, which runs it at once or as a microtask:
\* in both cases after the first setter and before any other event.
StatusPlaying(status) ==
    IF status.didJustFinish THEN FALSE ELSE status.isPlaying

\* position after the handler: setPosition(status.positionMillis || null),
\* overridden by setPosition(0) when the status has didJustFinish
StatusPosition(status) ==
    IF status.didJustFinish THEN 0 ELSE OrNull(status.positionMillis)

\* what the handler passes to the parent
StatusNotified(status) ==
    IF status.isLoaded /\ hasCallback THEN <<status>> ELSE <<>>

OnPlaybackStatus(status) ==
    /\ mounted
    /\ listener # NoSound
    /\ IF status.isLoaded
       THEN /\ duration' = OrNull(status.durationMillis)
            /\ position' = StatusPosition(status)
            /\ isPlaying' = StatusPlaying(status)
            /\ error' = error
       ELSE /\ error' = IF status.error # NoError THEN ErrStatus ELSE error
            /\ UNCHANGED <<duration, position, isPlaying>>
    /\ notified' = StatusNotified(status)
    /\ issued' = <<>>
    /\ lastEvent' = Event("status", TRUE, status, 0)
    /\ UNCHANGED <<sound, isLoading, mounted, hasCallback, cleanupSound,
                   loadPending, listener, created, unloaded>>

----------------------------------------------------------------------------
(* playPause *)

PlayPauseOp_Inverted(playing) == IF playing THEN "playAsync" ELSE "pauseAsync"

\* the platform call playPause issues on a loaded handle
PlayPauseOp(playing) == IF playing THEN "pauseAsync" ELSE "playAsync"

\* A press of the play button (disabled while isLoading).  Without a handle
\* the handler awaits loadAudio and returns; with a handle it issues one
\* call, whose rejection sets the error.
PlayPause ==
    /\ mounted
    /\ ~isLoading
    /\ IF sound = NoSound
       THEN /\ LoadAudioStart
            /\ lastEvent' = Event("playPause", TRUE, NoStatus, 0)
            /\ UNCHANGED <<isPlaying, duration, position>>
       ELSE \E ok \in BOOLEAN :
            /\ issued' = <<Call(PlayPauseOp(isPlaying), sound, 0, 1)>>
            /\ error' = IF ok THEN error ELSE ErrPlay
            /\ lastEvent' = Event("playPause", ok, NoStatus, 0)
            /\ UNCHANGED <<sound, isPlaying, isLoading, duration, position,
                           loadPending, unloaded>>
    /\ notified' = <<>>
    /\ UNCHANGED <<mounted, hasCallback, cleanupSound, listener, created>>

----------------------------------------------------------------------------
(* restart *)

RestartCalls_PausesFirst(h, playing, seekOk) ==
    IF playing
    THEN <<Call("pauseAsync", h, 0, 1), Call("setPositionAsync", h, 0, 1)>>
    ELSE <<Call("setPositionAsync", h, 0, 1), Call("playAsync", h, 0, 1)>>

\* the calls restart issues: setPositionAsync(0), then playAsync when the
\* seek resolved and the widget was not playing
RestartCalls(h, playing, seekOk) ==
    IF seekOk /\ ~playing
    THEN <<Call("setPositionAsync", h, 0, 1), Call("playAsync", h, 0, 1)>>
    ELSE <<Call("setPositionAsync", h, 0, 1)>>

\* A press of the restart button (disabled without a handle).
Restart ==
    /\ mounted
    /\ sound # NoSound
    /\ \E seekOk \in BOOLEAN, playOk \in BOOLEAN :
         LET threw == ~seekOk \/ (~isPlaying /\ ~playOk) IN
         /\ issued' = RestartCalls(sound, isPlaying, seekOk)
         /\ error' = IF threw THEN ErrRestart ELSE error
         /\ lastEvent' = Event("restart", ~threw, NoStatus, 0)
    /\ notified' = <<>>
    /\ UNCHANGED <<sound, isPlaying, isLoading, duration, position, mounted,
                   hasCallback, cleanupSound, loadPending, listener, created,
                   unloaded>>

----------------------------------------------------------------------------
(* The progress track and seekTo *)

Min(a, b) == IF a < b THEN a ELSE b
Max(a, b) == IF a > b THEN a ELSE b

progressBarWidth == WindowWidth - BarPadding

Percentage_Unclamped(locationX) == locationX

\* Math.max(0, Math.min(1, locationX / progressBarWidth)), as its numerator
\* over progressBarWidth
Percentage(locationX) == Max(0, Min(progressBarWidth, locationX))

\* the calls seekTo issues for a percentage pct / progressBarWidth
SeekCalls(pct) ==
    IF sound # NoSound /\ Truthy(duration)
    THEN <<Call("setPositionAsync", sound, duration * pct, progressBarWidth)>>
    ELSE <<>>

\* A tap on the progress track (rendered only when duration is truthy) at
\* horizontal offset locationX.  A rejected seek is logged and nothing else.
TapProgress(locationX) ==
    /\ mounted
    /\ Truthy(duration)
    /\ \E ok \in BOOLEAN :
         /\ issued' = SeekCalls(Percentage(locationX))
         /\ lastEvent' = Event("tap", ok, NoStatus, locationX)
    /\ notified' = <<>>
    /\ UNCHANGED <<sound, isPlaying, isLoading, duration, position, error,
                   mounted, hasCallback, cleanupSound, loadPending, listener,
                   created, unloaded>>

----------------------------------------------------------------------------
(* Teardown *)

\* The cleanup of the mount effect.  The effect has an empty dependency
\* list, so the cleanup reads the `sound` of the first render.
Unmount ==
    /\ mounted
    /\ mounted' = FALSE
    /\ IF cleanupSound # NoSound
       THEN /\ issued' = <<Call("unloadAsync", cleanupSound, 0, 1)>>
            /\ unloaded' = unloaded \cup {cleanupSound}
       ELSE /\ issued' = <<>>
            /\ unloaded' = unloaded
    /\ notified' = <<>>
    /\ lastEvent' = Event("unmount", TRUE, NoStatus, 0)
    /\ UNCHANGED <<sound, isPlaying, isLoading, duration, position, error,
                   hasCallback, cleanupSound, loadPending, listener, created>>

----------------------------------------------------------------------------

TapOffsets == (0 - MaxOvershoot)..(progressBarWidth + MaxOvershoot)

Next ==
    \/ PlayPause
    \/ CreateResolved
    \/ CreateRejected
    \/ \E status \in Status : OnPlaybackStatus(status)
    \/ Restart
    \/ \E locationX \in TapOffsets : TapProgress(locationX)
    \/ Unmount

Spec == Init /\ [][Next]_vars

----------------------------------------------------------------------------
(* Properties *)

\* C1: a play press with no handle loaded loads the resource and then
\* starts playback: when the load it started completes, playAsync has been
\* issued on the newly loaded handle, with no second press.
C1_LoadThenPlay ==
    lastEvent.kind = "createResolved" =>
        \E i \in 1..Len(issued) : issued[i] = Call("playAsync", sound, 0, 1)

\* C2: after teardown every handle that was created has had unloadAsync
\* called on it.
C2_ReleasedOnUnmount ==
    ~mounted => created \subseteq unloaded

\* C3: every failed platform call (load, play/pause, restart, seek) leaves
\* the error state non-null.
C3_FailureSetsError ==
    (lastEvent.kind \in {"createRejected", "playPause", "restart", "tap"}
        /\ ~lastEvent.ok) => error # NoError

\* C4: with the parent's callback supplied, every status notification
\* delivered by the handle, loaded or not, is passed to it once, unmodified.
C4_EveryStatusPassedOn ==
    (lastEvent.kind = "status" /\ hasCallback) =>
        notified = <<lastEvent.status>>

\* C5: after a status with didJustFinish is processed, position is 0 and
\* isPlaying is false, whatever the status carried.
C5_FinishedResets ==
    (lastEvent.kind = "status" /\ lastEvent.status.didJustFinish) =>
        (position = 0 /\ isPlaying = FALSE)

C5_Witness ==
    /\ lastEvent.kind = "status"
    /\ lastEvent.status.didJustFinish
    /\ lastEvent.status.isPlaying
    /\ lastEvent.status.positionMillis = MaxMillis
    /\ position = 0
    /\ isPlaying = FALSE

\* C6: with a handle loaded, a press of the play button issues exactly one
\* platform call on the handle: pauseAsync when isPlaying was true at the
\* press, playAsync when it was false.
C6_OneCallPerPress ==
    [][(lastEvent'.kind = "playPause" /\ sound # NoSound) =>
          issued' = <<Call(IF isPlaying THEN "pauseAsync" ELSE "playAsync",
                           sound, 0, 1)>>]_vars

C6_Witness ==
    /\ lastEvent.kind = "playPause"
    /\ sound # NoSound
    /\ isPlaying
    /\ issued = <<Call("pauseAsync", sound, 0, 1)>>

\* C7: a restart press on a loaded handle first calls setPositionAsync(0),
\* issues no pauseAsync, and leaves a playing widget playing.
C7_RestartSeeksZero ==
    [][(lastEvent'.kind = "restart") =>
          /\ sound # NoSound
          /\ Len(issued') >= 1
          /\ Head(issued') = Call("setPositionAsync", sound, 0, 1)
          /\ \A i \in 1..Len(issued') : issued'[i].op # "pauseAsync"
          /\ (isPlaying => isPlaying')]_vars

C7_Witness ==
    /\ lastEvent.kind = "restart"
    /\ isPlaying
    /\ issued = <<Call("setPositionAsync", sound, 0, 1)>>

\* C8: a tap at offset locationX on a track of width progressBarWidth, with
\* a handle loaded and the duration known, issues one setPositionAsync whose
\* argument is duration * clamp(locationX / progressBarWidth, 0, 1), which
\* lies in [0, duration].
C8_SeekClamped ==
    (lastEvent.kind = "tap" /\ sound # NoSound /\ Truthy(duration)) =>
        /\ Len(issued) = 1
        /\ issued[1].op = "setPositionAsync"
        /\ issued[1].handle = sound
        /\ issued[1].den = progressBarWidth
        /\ issued[1].num =
              IF lastEvent.x <= 0 THEN 0
              ELSE IF lastEvent.x >= progressBarWidth
                   THEN duration * progressBarWidth
                   ELSE duration * lastEvent.x
        /\ 0 <= issued[1].num
        /\ issued[1].num <= duration * issued[1].den

C8_Witness ==
    /\ lastEvent.kind = "tap"
    /\ lastEvent.x > progressBarWidth
    /\ sound # NoSound
    /\ duration = MaxMillis
    /\ issued = <<Call("setPositionAsync", sound,
                       duration * progressBarWidth, progressBarWidth)>>

\* C9: sound is non-null only if a createAsync call for it resolved; while a
\* load is pending, and after a failed one, it is null.
C9_HandleOnlyAfterLoad ==
    /\ sound # NoSound => sound \in created
    /\ loadPending => sound = NoSound
    /\ lastEvent.kind = "createRejected" => sound = NoSound

C9_Witness ==
    /\ lastEvent.kind = "createResolved"
    /\ sound # NoSound
    /\ sound \in created
    /\ error = NoError

\* C10: a load attempt ends with isLoading false, resolved or rejected;
\* after a rejected one the handle is null, the error is ErrLoad and no
\* create call has been issued; a load starts only from a play press, which
\* clears the error; until that press the failed state stays as it is.
C10_LoadFailure ==
    /\ [](isLoading = loadPending)
    /\ [](lastEvent.kind \in {"createResolved", "createRejected"}
             => ~isLoading)
    /\ [](lastEvent.kind = "createRejected"
             => sound = NoSound /\ error = ErrLoad /\ issued = <<>>)
    /\ [][(loadPending' /\ ~loadPending)
             => lastEvent'.kind = "playPause" /\ error' = NoError]_vars
    /\ [][(sound = NoSound /\ error = ErrLoad /\ ~loadPending
              /\ lastEvent'.kind # "playPause")
             => (sound' = NoSound /\ error' = ErrLoad /\ ~loadPending')]_vars

C10_Witness ==
    /\ lastEvent.kind = "createRejected"
    /\ sound = NoSound
    /\ error = ErrLoad
    /\ ~isLoading
    /\ mounted

====
